---- MODULE Spec2Model ----
(***************************************************************************)
(* WebsocketMultiAccountSubscriber of driftpy                              *)
(* (src/driftpy/src/driftpy/accounts/ws/multi_account_subscriber.py):      *)
(* the registry maps, the request correlator, the reader task's           *)
(* connect / replay / read loop, and the add_account / remove_account /    *)
(* unsubscribe calls.  The program runs on one asyncio event loop: a step of the       *)
(* model is the code a task runs between two points where it really        *)
(* suspends (a network await).  Acquiring the free asyncio.Lock does not   *)
(* suspend.                                                                *)
(*                                                                         *)
(* The server is the environment: it answers each accountSubscribe frame   *)
(* it received on the current socket with a confirmation echoing the       *)
(* request id and carrying a subscription id unused on that socket, sends  *)
(* notifications for its active subscriptions, and may close the socket    *)
(* at any time.  A frame is delivered and handled in one step.             *)
(***************************************************************************)
EXTENDS Integers, Sequences, FiniteSets, TLC

\* ------------------------------------------------------------- bounds
\* request_id_counter is capped: no subscribe request is made beyond it.
MaxRid == 2
\* The server draws subscription ids from 1..MaxSid.
MaxSid == 2
\* Slots carried by notifications, snapshots and initial values: 1..MaxSlot.
MaxSlot == 2
\* Length of the update sequences of SpecMerge.
MaxUpdates == 3

\* ------------------------------------------------------------- values
Pubkeys == {"A", "B"}
NoPubkey == "none"

\* A string key is modelled by its pieces between '-' characters:
\* str(pubkey) is <<pubkey>>, the oracle id "A-1" is <<"A", "1">>.
DigitPieces == {"1", "2"}
OracleIds == {<<"A", "1">>}
\* oracle_id = None
NoOracle == <<>>

PubkeyStr(pubkey) == <<pubkey>>

Keys == {PubkeyStr(p) : p \in Pubkeys} \cup OracleIds

Slots == 1..MaxSlot
Payloads == {"X"}
\* DataAndSlot(slot, data)
DataAndSlot(slot, data) == [slot |-> slot, data |-> data]
DataValues == {DataAndSlot(s, d) : s \in Slots, d \in Payloads}
\* The values SpecMerge hands to _update_data: two payloads tell a kept value
\* from a replaced one on equal slots.
MergePayloads == {"X", "Y"}
MergeValues == {DataAndSlot(s, d) : s \in Slots, d \in MergePayloads}
\* A DataAndSlot argument or result that is None.
NoneData == [slot |-> -1, data |-> "none"]

SubIds == 1..MaxSid

\* ------------------------------------------------------------- dicts
\* A Python dict is a function whose DOMAIN is the set of its keys.
EmptyDict == [x \in {} |-> x]
Put(d, k, v) == [x \in (DOMAIN d) \cup {k} |-> IF x = k THEN v ELSE d[x]]
Del(d, k) == [x \in (DOMAIN d) \ {k} |-> d[x]]
DelAll(d, ks) == [x \in (DOMAIN d) \ ks |-> d[x]]

\* ----------------------------------------------------- pure functions
\* The key -> pubkey extraction of _subscribe_ws and fetch: a key whose
\* last '-' piece is all digits loses that piece; Pubkey.from_string of
\* the rest succeeds iff the rest is the string of an address.
KeyPubkey(key) ==
    LET n == Len(key)
        rest == IF n >= 2 /\ key[n] \in DigitPieces
                THEN SubSeq(key, 1, n - 1) ELSE key
    IN IF Len(rest) = 1 /\ rest[1] \in Pubkeys THEN rest[1] ELSE NoPubkey

\* The internal key of add_account / fetch.
InternalKey(pubkey, oracle_id) ==
    IF oracle_id # NoOracle THEN oracle_id ELSE PubkeyStr(pubkey)

\* A plausible slip of _update_data: ">" where the code has ">=".
UpdateDataFirstWins(dm, key, new_data) ==
    IF new_data = NoneData THEN dm
    ELSE IF key \notin DOMAIN dm \/ new_data.slot > dm[key].slot
         THEN Put(dm, key, new_data)
         ELSE dm

\* A plausible slip of _update_data: the slot comparison is left out.
UpdateDataLastWins(dm, key, new_data) ==
    IF new_data = NoneData THEN dm ELSE Put(dm, key, new_data)

\* _update_data: the data_map after merging new_data for key.
UpdateData(dm, key, new_data) ==
    IF new_data = NoneData THEN dm
    ELSE IF key \notin DOMAIN dm \/ new_data.slot >= dm[key].slot
         THEN Put(dm, key, new_data)
         ELSE dm

\* --------------------------------------------------------------- state
VARIABLES
    ws,                         \* self.ws: "none" or "sock" (the last socket made)
    running,                    \* self._running
    task,                       \* self.task is set
    readerPc,                   \* where _subscribe_ws stands
    replayLeft,                 \* initial_accounts not yet subscribed
    subscription_map,           \* subscription id -> pubkey
    pubkey_to_subscription,     \* pubkey -> subscription id
    decode_map,                 \* the keys holding a decoder
    data_map,                   \* key -> DataAndSlot
    pubkey_to_oracle_ids,       \* pubkey -> set of oracle ids
    oracle_id_to_subscription,  \* oracle id -> subscription id
    request_id_counter,
    inflight_subscribes,        \* request id -> <<pubkey, oracle_id>>
    pending_subscriptions,      \* the legacy list; nothing appends to it
    addPc,                      \* add_account: "idle" or "fetch" (awaiting the snapshot)
    addArgs,                    \* the pubkey and oracle id of the suspended add_account
    addResult,                  \* how the last add_account call ended: "none" (no call
                                \* has ended yet), "returned" or "raised"
    fetching,                   \* the fetch() call awaiting its snapshots: its mode
                                \* ("idle", "one", "all") and the keys it fetches
    sockOpen,                   \* the last socket made is open
    srvPending,                 \* subscribe frames the server has not answered
    srvSubs,                    \* the server's subscriptions on the socket: id -> pubkey
    subFrames,                  \* accountSubscribe frames sent on the socket, per pubkey,
                                \* since the pubkey's last remove_account
    unsubFrames,                \* subscription ids of the unsubscribe frames sent
    noteTick,                   \* flips with every notification handled
    ridAtConnect,               \* request_id_counter when the socket was made
    wasConfirmed,               \* pubkeys with a subscription id when the last socket was
                                \* lost, and no add_account or remove_account since
    submitted,                  \* SpecMerge: the updates handed to _update_data
    stopPc,                     \* unsubscribe: "idle", "close" (awaiting the socket's
                                \* close) or "task" (awaiting the reader task)
    stopped,                    \* "no", or how unsubscribe returned when no call was
                                \* made since: "atonce" (nothing to wait for), "waited"
    addedOffline,               \* pubkeys of the feeds (keys not cached before) that
                                \* add_account calls added while the reader held no
                                \* socket, not removed since, until the next socket is lost
    trackOffline,               \* addedOffline is recorded (SpecOffline only)
    lastDropped,                \* the kind of the last frame outside the server's
                                \* protocol that the read loop handled ("none" at first)
    lockedWaits,                \* the awaits on which a task was suspended while it
                                \* held _lock
    fetchSeen,                  \* "partial" once a fetch() of all feeds has returned
                                \* with one snapshot failed and another merged
    stop2Pc,                    \* an unsubscribe call made while another one awaits
                                \* the reader task: "idle", "close", "task" (awaiting
                                \* the task the first call awaits) or "task_new"
                                \* (awaiting a task started after the first call
                                \* returned)
    orphans                     \* reader tasks that still run and that self.task no
                                \* longer refers to

registry == <<subscription_map, pubkey_to_subscription, decode_map, data_map,
              pubkey_to_oracle_ids, oracle_id_to_subscription>>
correlator == <<request_id_counter, inflight_subscribes, pending_subscriptions>>
reader == <<ws, running, task, readerPc, replayLeft>>
caller == <<addPc, addArgs, addResult, fetching>>
server == <<sockOpen, srvPending, srvSubs>>
ghost == <<subFrames, unsubFrames, noteTick, ridAtConnect, wasConfirmed, submitted,
           stopped, addedOffline, trackOffline, lastDropped, lockedWaits, fetchSeen>>
overlap == <<stop2Pc, orphans>>
vars == <<registry, correlator, reader, caller, server, ghost, stopPc, overlap>>

NoFrames == [p \in Pubkeys |-> 0]
\* had_decoder: the key held a decoder when add_account was called.
NoArgs == [pubkey |-> NoPubkey, oracle_id |-> NoOracle, had_decoder |-> FALSE]
\* No fetch() call is suspended.
NoFetch == [mode |-> "idle", keys |-> {}]

\* __init__
InitManager ==
    /\ ws = "none"
    /\ running = FALSE
    /\ task = FALSE
    /\ readerPc = "idle"
    /\ replayLeft = {}
    /\ subscription_map = EmptyDict
    /\ pubkey_to_subscription = EmptyDict
    /\ decode_map = {}
    /\ data_map = EmptyDict
    /\ pubkey_to_oracle_ids = EmptyDict
    /\ oracle_id_to_subscription = EmptyDict
    /\ request_id_counter = 0
    /\ inflight_subscribes = EmptyDict
    /\ pending_subscriptions = <<>>
    /\ addPc = "idle"
    /\ addArgs = NoArgs
    /\ addResult = "none"
    /\ fetching = NoFetch
    /\ sockOpen = FALSE
    /\ srvPending = {}
    /\ srvSubs = EmptyDict
    /\ subFrames = NoFrames
    /\ unsubFrames = {}
    /\ noteTick = FALSE
    /\ ridAtConnect = 0
    /\ wasConfirmed = {}
    /\ submitted = <<>>
    /\ stopPc = "idle"
    /\ stopped = "no"
    /\ addedOffline = {}
    /\ lastDropped = "none"
    /\ lockedWaits = {}
    /\ fetchSeen = "none"
    /\ stop2Pc = "idle"
    /\ orphans = 0

Init == InitManager /\ trackOffline = FALSE

\* ---------------------------------------------------------- send path
\* self.pubkey_to_oracle_ids.get(pubkey, set())
OracleIdsOf(pubkey) ==
    IF pubkey \in DOMAIN pubkey_to_oracle_ids
    THEN pubkey_to_oracle_ids[pubkey] ELSE {}

\* The reader holds no socket: it is not inside "async with websockets.connect".
Offline == readerPc # "read"

\* The socket is the raw websockets connection (typing.cast wraps nothing):
\* it has no account_unsubscribe method, so the call raises AttributeError,
\* which remove_account swallows.
SocketIsRpcClient == TRUE

SocketHasAccountUnsubscribe == FALSE

\* A plausible slip of the send path: the handler of a failed send leaves
\* the in-flight entry.
SendSubscribeKeepsEntry(pubkey, oracle_id) ==
    LET request_id == request_id_counter + 1
        tracked == Put(inflight_subscribes, request_id, <<pubkey, oracle_id>>)
    IN /\ request_id_counter < MaxRid
       /\ request_id_counter' = request_id
       /\ pending_subscriptions' = pending_subscriptions
       /\ inflight_subscribes' = tracked
       /\ IF sockOpen
          THEN /\ srvPending' = srvPending \cup {<<request_id, pubkey>>}
               /\ subFrames' = [subFrames EXCEPT ![pubkey] = @ + 1]
          ELSE UNCHANGED <<srvPending, subFrames>>

\* Take the next request id, record it in flight and send the
\* accountSubscribe frame; a send that raises retracts the entry.
SendSubscribe(pubkey, oracle_id) ==
    LET request_id == request_id_counter + 1
        tracked == Put(inflight_subscribes, request_id, <<pubkey, oracle_id>>)
    IN /\ request_id_counter < MaxRid
       /\ request_id_counter' = request_id
       /\ pending_subscriptions' = pending_subscriptions
       /\ IF sockOpen
          THEN /\ inflight_subscribes' = tracked
               /\ srvPending' = srvPending \cup {<<request_id, pubkey>>}
               /\ subFrames' = [subFrames EXCEPT ![pubkey] = @ + 1]
          ELSE /\ inflight_subscribes' = Del(tracked, request_id)
               /\ UNCHANGED <<srvPending, subFrames>>

NoSubscribe == UNCHANGED <<correlator, srvPending, subFrames>>

\* The tail of add_account: subscribe on the wire when a socket is set and
\* the pubkey has no subscription id yet.
AddWire(pubkey, oracle_id) ==
    IF ws # "none" /\ pubkey \notin DOMAIN pubkey_to_subscription
    THEN SendSubscribe(pubkey, oracle_id)
    ELSE NoSubscribe

\* --------------------------------------------------------- add_account
\* The (pubkey, oracle_id) pairs callers use: a pubkey alone, or an oracle
\* id "pubkey-n" with its own pubkey.
AddInputs ==
    {<<p, NoOracle>> : p \in Pubkeys} \cup {<<KeyPubkey(o), o>> : o \in OracleIds}

\* The results of a snapshot fetch that does not fail.
SnapshotResults == DataValues

\* add_account up to its first real suspension: the registration under the
\* lock and, when an initial value is at hand, the subscribe request.
AddAccount(pubkey, oracle_id, initial_data) ==
    LET key == InternalKey(pubkey, oracle_id)
        seeded == IF initial_data # NoneData
                  THEN Put(data_map, key, initial_data) ELSE data_map
        withOracle == Put(pubkey_to_oracle_ids, pubkey,
                          OracleIdsOf(pubkey) \cup {oracle_id})
        initial == IF initial_data # NoneData THEN initial_data
                   ELSE IF key \in DOMAIN data_map THEN data_map[key]
                   ELSE NoneData
    IN /\ addPc = "idle"
       /\ IF pubkey \in DOMAIN pubkey_to_subscription
          THEN /\ IF oracle_id # NoOracle
                  THEN /\ pubkey_to_oracle_ids' = withOracle
                       /\ oracle_id_to_subscription' =
                              Put(oracle_id_to_subscription, oracle_id,
                                  pubkey_to_subscription[pubkey])
                       /\ decode_map' = decode_map \cup {key}
                       /\ data_map' = seeded
                  ELSE UNCHANGED <<pubkey_to_oracle_ids, oracle_id_to_subscription,
                                   decode_map, data_map>>
               /\ UNCHANGED <<addPc, addArgs>>
               /\ NoSubscribe
          ELSE /\ decode_map' = decode_map \cup {key}
               /\ data_map' = seeded
               /\ pubkey_to_oracle_ids' =
                      IF oracle_id # NoOracle THEN withOracle ELSE pubkey_to_oracle_ids
               /\ UNCHANGED oracle_id_to_subscription
               /\ IF initial = NoneData
                  THEN /\ addPc' = "fetch"
                       /\ addArgs' = [pubkey |-> pubkey, oracle_id |-> oracle_id,
                                      had_decoder |-> key \in decode_map]
                       /\ NoSubscribe
                  ELSE /\ UNCHANGED <<addPc, addArgs>>
                       /\ AddWire(pubkey, oracle_id)
       /\ addResult' = IF addPc' = "fetch" THEN addResult ELSE "returned"
       /\ wasConfirmed' = wasConfirmed \ {pubkey}
       /\ stopped' = "no"
       /\ addedOffline' =
              IF trackOffline /\ Offline /\ addPc' = "idle" /\ key \notin DOMAIN data_map
              THEN addedOffline \cup {pubkey} ELSE addedOffline
       /\ UNCHANGED <<subscription_map, pubkey_to_subscription, reader, sockOpen,
                      srvSubs, unsubFrames, noteTick, ridAtConnect, submitted, stopPc, overlap,
                      trackOffline, lastDropped, lockedWaits, fetching, fetchSeen>>

\* The snapshot fetch of add_account returned: the value is stored and the
\* subscribe request follows.
AddFetchOk(result) ==
    /\ addPc = "fetch"
    /\ data_map' = Put(data_map, InternalKey(addArgs.pubkey, addArgs.oracle_id), result)
    /\ addPc' = "idle"
    /\ addArgs' = NoArgs
    /\ addResult' = "returned"
    /\ AddWire(addArgs.pubkey, addArgs.oracle_id)
    /\ addedOffline' = IF trackOffline /\ Offline
                       THEN addedOffline \cup {addArgs.pubkey} ELSE addedOffline
    /\ UNCHANGED <<subscription_map, pubkey_to_subscription, decode_map,
                   pubkey_to_oracle_ids, oracle_id_to_subscription, reader, sockOpen,
                   srvSubs, unsubFrames, noteTick, ridAtConnect, wasConfirmed, submitted,
                   stopped, stopPc, overlap, trackOffline, lastDropped, lockedWaits, fetching,
                   fetchSeen>>

\* The snapshot fetch raised: add_account prints the error and returns.
AddFetchFail ==
    /\ addPc = "fetch"
    /\ addPc' = "idle"
    /\ addArgs' = NoArgs
    /\ addResult' = "returned"
    /\ UNCHANGED <<registry, correlator, reader, server, ghost, stopPc, overlap, fetching>>

\* ------------------------------------------------------ remove_account
RemoveAccount(pubkey, oracle_id) ==
    LET hasSet == pubkey \in DOMAIN pubkey_to_oracle_ids
        gone == IF ~hasSet THEN {}
                ELSE IF oracle_id # NoOracle THEN {oracle_id}
                ELSE pubkey_to_oracle_ids[pubkey]
        oracle_ids1 ==
            IF oracle_id # NoOracle
            THEN IF hasSet
                 THEN Put(pubkey_to_oracle_ids, pubkey,
                          pubkey_to_oracle_ids[pubkey] \ {oracle_id})
                 ELSE pubkey_to_oracle_ids
            ELSE Del(pubkey_to_oracle_ids, pubkey)
        decode1 == decode_map \ gone
        data1 == DelAll(data_map, gone)
        othersLeft == /\ oracle_id # NoOracle
                      /\ pubkey \in DOMAIN oracle_ids1
                      /\ oracle_ids1[pubkey] # {}
        subscription_id == pubkey_to_subscription[pubkey]
    IN /\ pubkey_to_oracle_ids' = oracle_ids1
       /\ oracle_id_to_subscription' = DelAll(oracle_id_to_subscription, gone)
       /\ IF othersLeft \/ pubkey \notin DOMAIN pubkey_to_subscription
          THEN /\ decode_map' = decode1
               /\ data_map' = data1
               /\ UNCHANGED <<subscription_map, pubkey_to_subscription, unsubFrames>>
          ELSE /\ unsubFrames' =
                      IF ws # "none" /\ SocketHasAccountUnsubscribe /\ sockOpen
                      THEN unsubFrames \cup {subscription_id} ELSE unsubFrames
               /\ IF subscription_id \in DOMAIN subscription_map
                  THEN /\ subscription_map' = Del(subscription_map, subscription_id)
                       /\ pubkey_to_subscription' = Del(pubkey_to_subscription, pubkey)
                       /\ decode_map' = decode1 \ {PubkeyStr(pubkey)}
                       /\ data_map' = Del(data1, PubkeyStr(pubkey))
                  ELSE \* del subscription_map[subscription_id] raises KeyError
                       /\ decode_map' = decode1
                       /\ data_map' = data1
                       /\ UNCHANGED <<subscription_map, pubkey_to_subscription>>
       /\ lockedWaits' =
              IF /\ ~othersLeft
                 /\ pubkey \in DOMAIN pubkey_to_subscription
                 /\ ws # "none" /\ SocketHasAccountUnsubscribe
              THEN lockedWaits \cup {"remove_account"} ELSE lockedWaits
       /\ subFrames' = [subFrames EXCEPT ![pubkey] = 0]
       /\ wasConfirmed' = wasConfirmed \ {pubkey}
       /\ stopped' = "no"
       /\ addedOffline' = addedOffline \ {pubkey}
       /\ UNCHANGED <<correlator, reader, caller, server, noteTick, ridAtConnect,
                      submitted, stopPc, overlap, trackOffline, lastDropped, fetchSeen>>

\* ----------------------------------------------------- the reader task
\* subscribe(): start the reader task once.
Subscribe ==
    /\ ~task
    /\ task' = TRUE
    /\ running' = TRUE
    /\ readerPc' = "connecting"
    /\ stopped' = "no"
    /\ UNCHANGED <<ws, replayLeft, registry, correlator, caller, server, subFrames,
                   unsubFrames, noteTick, ridAtConnect, wasConfirmed, submitted,
                   addedOffline, stopPc, overlap, trackOffline, lastDropped,
                   lockedWaits, fetchSeen>>

\* The pubkeys the connect-time replay subscribes: those of the keys of
\* data_map that parse to a pubkey, without the ones holding a subscription id.
DesiredPubkeys ==
    ({KeyPubkey(k) : k \in DOMAIN data_map} \ {NoPubkey})
        \ DOMAIN pubkey_to_subscription

\* The values initial_accounts can take: one (pubkey, key) per desired
\* pubkey, the key being one of data_map that parses to it (the first in
\* the dict's order, which the model leaves open).
InitialAccounts ==
    LET choices == {f \in [DesiredPubkeys -> DOMAIN data_map] :
                        \A p \in DesiredPubkeys : KeyPubkey(f[p]) = p}
    IN {{<<p, f[p]>> : p \in DesiredPubkeys} : f \in choices}

\* websockets.connect succeeded: self.ws is set and initial_accounts computed.
ConnectOk ==
    /\ readerPc = "connecting"
    /\ running
    /\ ws' = "sock"
    /\ sockOpen' = TRUE
    /\ srvPending' = {}
    /\ srvSubs' = EmptyDict
    /\ subFrames' = NoFrames
    /\ ridAtConnect' = request_id_counter
    /\ \E accounts \in InitialAccounts : replayLeft' = accounts
    /\ readerPc' = "read"
    /\ UNCHANGED <<running, task, registry, correlator, caller, unsubFrames,
                   noteTick, wasConfirmed, submitted, stopped, addedOffline, stopPc, overlap,
                   trackOffline, lastDropped,
                   lockedWaits, fetchSeen>>

\* A plausible slip of the connect failure handler: the request id counter
\* is reset with the in-flight state.
ConnectFailResetsCounter ==
    /\ readerPc = "connecting"
    /\ running
    /\ ws' = "none"
    /\ subscription_map' = EmptyDict
    /\ pubkey_to_subscription' = EmptyDict
    /\ inflight_subscribes' = EmptyDict
    /\ request_id_counter' = 0
    /\ readerPc' = "backoff"
    /\ UNCHANGED <<running, task, replayLeft, decode_map, data_map,
                   pubkey_to_oracle_ids, oracle_id_to_subscription,
                   pending_subscriptions, caller, server, ghost, stopPc, overlap>>

\* websockets.connect raised: the handler of the outer try clears the
\* subscription-id and in-flight state, then sleeps.
ConnectFail ==
    /\ readerPc = "connecting"
    /\ running
    /\ ws' = "none"
    /\ subscription_map' = EmptyDict
    /\ pubkey_to_subscription' = EmptyDict
    /\ inflight_subscribes' = EmptyDict
    /\ readerPc' = "backoff"
    /\ UNCHANGED <<running, task, replayLeft, decode_map, data_map,
                   pubkey_to_oracle_ids, oracle_id_to_subscription,
                   request_id_counter, pending_subscriptions, caller, server, ghost,
                   stopPc, overlap>>

\* A plausible slip of the connect failure handler: break where the code
\* has continue, so that the task ends after the sleep.
BackoffEndsReader ==
    /\ readerPc = "backoff"
    /\ running
    /\ readerPc' = "done"
    /\ UNCHANGED <<ws, running, task, replayLeft, registry, correlator, caller,
                   server, ghost, stopPc, overlap>>

\* asyncio.sleep(1) is over: back to the head of the outer loop.  (_running
\* is false only once unsubscribe has cancelled the task, and then the sleep
\* raises CancelledError instead of returning.)
BackoffDone ==
    /\ readerPc = "backoff"
    /\ running
    /\ readerPc' = "connecting"
    /\ UNCHANGED <<ws, running, task, replayLeft, registry, correlator, caller,
                   server, ghost, stopPc, overlap>>

\* One turn of the replay loop over initial_accounts.
ReplayStep ==
    /\ readerPc = "read"
    /\ running
    /\ \E e \in replayLeft :
          /\ replayLeft' = replayLeft \ {e}
          /\ SendSubscribe(e[1], IF e[2] # PubkeyStr(e[1]) THEN e[2] ELSE NoOracle)
    /\ UNCHANGED <<ws, running, task, readerPc, registry, caller, sockOpen, srvSubs,
                   unsubFrames, noteTick, ridAtConnect, wasConfirmed, submitted,
                   stopped, addedOffline, stopPc, overlap,
                   trackOffline, lastDropped,
                   lockedWaits, fetchSeen>>

\* The read loop stands in recv.
Reading == readerPc = "read" /\ replayLeft = {} /\ running

\* request_id = None: the frame carries no usable id.
NoRid == 0

\* A plausible slip of the confirmation handler: the oldest request in
\* flight is resolved, whatever id the confirmation echoes.
HandleConfirmationInOrder(request_id, result) ==
    IF inflight_subscribes # EmptyDict
    THEN LET oldest == CHOOSE r \in DOMAIN inflight_subscribes :
                          \A q \in DOMAIN inflight_subscribes : r <= q
             pubkey == inflight_subscribes[oldest][1]
         IN /\ inflight_subscribes' = Del(inflight_subscribes, oldest)
            /\ subscription_map' = Put(subscription_map, result, pubkey)
            /\ pubkey_to_subscription' = Put(pubkey_to_subscription, pubkey, result)
            /\ oracle_id_to_subscription' =
                   [o \in (DOMAIN oracle_id_to_subscription) \cup OracleIdsOf(pubkey) |->
                       IF o \in OracleIdsOf(pubkey) THEN result
                       ELSE oracle_id_to_subscription[o]]
            /\ UNCHANGED pending_subscriptions
    ELSE UNCHANGED <<inflight_subscribes, subscription_map, pubkey_to_subscription,
                     oracle_id_to_subscription, pending_subscriptions>>

\* A plausible slip of the confirmation handler: a confirmation that matches
\* no in-flight id falls back to the oldest request in flight instead of the
\* legacy list.
HandleConfirmationFallbackInflight(request_id, result) ==
    LET matched == request_id # NoRid /\ request_id \in DOMAIN inflight_subscribes
        oldest == CHOOSE r \in DOMAIN inflight_subscribes :
                     \A q \in DOMAIN inflight_subscribes : r <= q
        resolved == IF matched THEN request_id ELSE oldest
    IN IF matched \/ inflight_subscribes # EmptyDict
       THEN LET pubkey == inflight_subscribes[resolved][1]
            IN /\ inflight_subscribes' = Del(inflight_subscribes, resolved)
               /\ subscription_map' = Put(subscription_map, result, pubkey)
               /\ pubkey_to_subscription' = Put(pubkey_to_subscription, pubkey, result)
               /\ oracle_id_to_subscription' =
                      [o \in (DOMAIN oracle_id_to_subscription) \cup OracleIdsOf(pubkey) |->
                          IF o \in OracleIdsOf(pubkey) THEN result
                          ELSE oracle_id_to_subscription[o]]
               /\ UNCHANGED pending_subscriptions
       ELSE UNCHANGED <<inflight_subscribes, subscription_map, pubkey_to_subscription,
                        oracle_id_to_subscription, pending_subscriptions>>

\* A subscribe confirmation (result is an int) is handled.
HandleConfirmation(request_id, result) ==
    IF request_id # NoRid /\ request_id \in DOMAIN inflight_subscribes
    THEN LET pubkey == inflight_subscribes[request_id][1]
         IN /\ inflight_subscribes' = Del(inflight_subscribes, request_id)
            /\ subscription_map' = Put(subscription_map, result, pubkey)
            /\ pubkey_to_subscription' = Put(pubkey_to_subscription, pubkey, result)
            /\ oracle_id_to_subscription' =
                   [o \in (DOMAIN oracle_id_to_subscription) \cup OracleIdsOf(pubkey) |->
                       IF o \in OracleIdsOf(pubkey) THEN result
                       ELSE oracle_id_to_subscription[o]]
            /\ UNCHANGED pending_subscriptions
    ELSE IF pending_subscriptions # <<>>
    THEN LET pubkey == Head(pending_subscriptions)
         IN /\ pending_subscriptions' = Tail(pending_subscriptions)
            /\ subscription_map' = Put(subscription_map, result, pubkey)
            /\ pubkey_to_subscription' = Put(pubkey_to_subscription, pubkey, result)
            /\ UNCHANGED <<inflight_subscribes, oracle_id_to_subscription>>
    ELSE UNCHANGED <<inflight_subscribes, subscription_map, pubkey_to_subscription,
                     oracle_id_to_subscription, pending_subscriptions>>

\* The server answers a subscribe frame; the reader handles the confirmation.
RecvConfirm(request_id, subscription_id) ==
    /\ Reading
    /\ sockOpen
    /\ subscription_id \in SubIds \ DOMAIN srvSubs
    /\ \E req \in srvPending :
          /\ req[1] = request_id
          /\ srvPending' = srvPending \ {req}
          /\ srvSubs' = Put(srvSubs, subscription_id, req[2])
    /\ HandleConfirmation(request_id, subscription_id)
    /\ UNCHANGED <<decode_map, data_map, pubkey_to_oracle_ids, request_id_counter,
                   reader, caller, sockOpen, ghost, stopPc, overlap>>

\* _update_data applied for each key of a set.
RECURSIVE UpdateEach(_, _, _)
UpdateEach(dm, keys, new_data) ==
    IF keys = {} THEN dm
    ELSE LET k == CHOOSE k \in keys : TRUE
         IN UpdateEach(UpdateData(dm, k, new_data), keys \ {k}, new_data)

\* msg[0].subscription is None: the frame names no subscription.
NoSid == 0

\* A plausible slip of the notification handler: an id that subscription_map
\* does not hold falls back to the subscribed addresses.
HandleNotificationDefaultAddress(subscription_id, slot, payload, bad) ==
    LET pubkeys == IF subscription_id \in DOMAIN subscription_map
                   THEN {subscription_map[subscription_id]}
                   ELSE DOMAIN pubkey_to_subscription
        targets == UNION {IF OracleIdsOf(p) # {} THEN OracleIdsOf(p)
                          ELSE {PubkeyStr(p)} : p \in pubkeys}
        decoded == {k \in targets : k \in decode_map /\ k \notin bad}
    IN UpdateEach(data_map, decoded, DataAndSlot(slot, payload))

\* The data_map after an account notification is handled; bad is the set of
\* keys whose decoder raises on the notification's bytes.
HandleNotification(subscription_id, slot, payload, bad) ==
    IF subscription_id \notin DOMAIN subscription_map
    THEN data_map
    ELSE LET pubkey == subscription_map[subscription_id]
             oracle_ids == OracleIdsOf(pubkey)
             targets == IF oracle_ids # {} THEN oracle_ids ELSE {PubkeyStr(pubkey)}
             decoded == {k \in targets : k \in decode_map /\ k \notin bad}
         IN UpdateEach(data_map, decoded, DataAndSlot(slot, payload))

\* The keys that parse to a pubkey.
KeysOf(pubkey) == {k \in Keys : KeyPubkey(k) = pubkey}

\* get_data of a string key: the cached value, None when absent.
GetData(key) ==
    IF key \in DOMAIN data_map THEN data_map[key] ELSE NoneData

\* get_data of a Pubkey: it stands for its own string when it has no oracle
\* id, and for the first of its oracle ids otherwise (no pubkey of the model
\* has more than one).
GetDataOfPubkey(pubkey) ==
    GetData(IF OracleIdsOf(pubkey) = {} THEN PubkeyStr(pubkey)
            ELSE CHOOSE o \in OracleIdsOf(pubkey) : TRUE)

\* The server pushes a notification; the reader handles it.
RecvNotify(subscription_id, slot, payload, bad) ==
    /\ Reading
    /\ sockOpen
    /\ subscription_id \in DOMAIN srvSubs
    /\ bad \subseteq KeysOf(srvSubs[subscription_id])
    /\ data_map' = HandleNotification(subscription_id, slot, payload, bad)
    /\ noteTick' = ~noteTick
    /\ UNCHANGED <<subscription_map, pubkey_to_subscription, decode_map,
                   pubkey_to_oracle_ids, oracle_id_to_subscription, correlator,
                   reader, caller, server, subFrames, unsubFrames, ridAtConnect,
                   wasConfirmed, submitted, stopped, addedOffline, stopPc, overlap,
                   trackOffline, lastDropped,
                   lockedWaits, fetchSeen>>

\* A plausible slip of the disconnect path: the cached values go with the
\* subscription ids.
RecvClosedDropsCache ==
    /\ Reading
    /\ ~sockOpen
    /\ readerPc' = "connecting"
    /\ data_map' = EmptyDict
    /\ wasConfirmed' = DOMAIN pubkey_to_subscription
    /\ addedOffline' = {}
    /\ UNCHANGED <<ws, running, task, replayLeft, subscription_map,
                   pubkey_to_subscription, decode_map, pubkey_to_oracle_ids,
                   oracle_id_to_subscription, correlator, caller, server, subFrames,
                   unsubFrames, noteTick, ridAtConnect, submitted, stopped, stopPc, overlap,
                   trackOffline, lastDropped, lockedWaits, fetchSeen>>

\* recv raised ConnectionClosed: the inner loop is left by break, the socket's
\* context is exited and the outer loop connects again at once.
RecvClosed ==
    /\ Reading
    /\ ~sockOpen
    /\ readerPc' = "connecting"
    /\ wasConfirmed' = DOMAIN pubkey_to_subscription
    /\ addedOffline' = {}
    /\ UNCHANGED <<ws, running, task, replayLeft, registry, correlator, caller,
                   server, subFrames, unsubFrames, noteTick, ridAtConnect, submitted,
                   stopped, stopPc, overlap, trackOffline, lastDropped,
                   lockedWaits, fetchSeen>>

\* The server, or the network, closes the socket.
ServerClose ==
    /\ sockOpen
    /\ sockOpen' = FALSE
    /\ srvPending' = {}
    /\ srvSubs' = EmptyDict
    /\ UNCHANGED <<registry, correlator, reader, caller, ghost, stopPc, overlap>>

\* ------------------------------------------------------- specification
Next ==
    \/ \E in \in AddInputs, d \in DataValues \cup {NoneData} : AddAccount(in[1], in[2], d)
    \/ \E result \in SnapshotResults : AddFetchOk(result)
    \/ AddFetchFail
    \/ \E in \in AddInputs : RemoveAccount(in[1], in[2])
    \/ Subscribe
    \/ ConnectOk
    \/ ConnectFail
    \/ BackoffDone
    \/ ReplayStep
    \/ \E r \in 1..MaxRid, s \in SubIds : RecvConfirm(r, s)
    \/ \E s \in SubIds, slot \in Slots, payload \in Payloads, bad \in SUBSET Keys :
          RecvNotify(s, slot, payload, bad)
    \/ RecvClosed
    \/ ServerClose

Spec == Init /\ [][Next]_vars

\* ------------------------------------------- stale frames (SpecStale)
\* A confirmation frame left over from an earlier socket reaches the read
\* loop: its request id was issued before the current socket was made.
RecvStaleConfirm(request_id, subscription_id) ==
    /\ Reading
    /\ sockOpen
    /\ request_id \in 1..ridAtConnect
    /\ HandleConfirmation(request_id, subscription_id)
    /\ UNCHANGED <<decode_map, data_map, pubkey_to_oracle_ids, request_id_counter,
                   reader, caller, server, ghost, stopPc, overlap>>

NextStale ==
    \/ Next
    \/ \E r \in 1..MaxRid, s \in SubIds : RecvStaleConfirm(r, s)

SpecStale == Init /\ [][NextStale]_vars

\* A notification frame reaches the read loop bearing a subscription id
\* that no confirmation on the current socket carried: the server holds no
\* such subscription on it.
RecvStaleNotify(subscription_id, slot, payload) ==
    /\ Reading
    /\ sockOpen
    /\ subscription_id \in SubIds \ DOMAIN srvSubs
    /\ data_map' = HandleNotification(subscription_id, slot, payload, {})
    /\ noteTick' = ~noteTick
    /\ UNCHANGED <<subscription_map, pubkey_to_subscription, decode_map,
                   pubkey_to_oracle_ids, oracle_id_to_subscription, correlator,
                   reader, caller, server, subFrames, unsubFrames, ridAtConnect,
                   wasConfirmed, submitted, stopped, addedOffline, stopPc, overlap,
                   trackOffline, lastDropped,
                   lockedWaits, fetchSeen>>

NextStaleNote ==
    \/ Next
    \/ \E s \in SubIds, slot \in Slots, payload \in Payloads :
          RecvStaleNotify(s, slot, payload)

SpecStaleNote == Init /\ [][NextStaleNote]_vars

\* ------------------------------------- feeds added offline (SpecOffline)
\* The manager of Spec, with addedOffline recorded.
InitOffline == InitManager /\ trackOffline = TRUE

SpecOffline == InitOffline /\ [][Next]_vars

\* ------------------------------------------------ unsubscribe (SpecStop)
\* The manager after a full shutdown.
FullyStopped ==
    /\ ws = "none"
    /\ ~task
    /\ subscription_map = EmptyDict
    /\ pubkey_to_subscription = EmptyDict
    /\ decode_map = {}
    /\ data_map = EmptyDict
    /\ pubkey_to_oracle_ids = EmptyDict
    /\ oracle_id_to_subscription = EmptyDict
    /\ inflight_subscribes = EmptyDict
    /\ pending_subscriptions = <<>>
    /\ request_id_counter = 0

\* A plausible slip of the last block of unsubscribe: the cached values and
\* the decoders are kept for a later restart.
ClearAllButCache ==
    /\ subscription_map' = EmptyDict
    /\ pubkey_to_subscription' = EmptyDict
    /\ pubkey_to_oracle_ids' = EmptyDict
    /\ oracle_id_to_subscription' = EmptyDict
    /\ inflight_subscribes' = EmptyDict
    /\ pending_subscriptions' = <<>>
    /\ request_id_counter' = 0
    /\ UNCHANGED <<decode_map, data_map>>

\* The last block of unsubscribe, under the lock: every map is cleared and
\* the request id counter is reset.
ClearAll ==
    /\ subscription_map' = EmptyDict
    /\ pubkey_to_subscription' = EmptyDict
    /\ decode_map' = {}
    /\ data_map' = EmptyDict
    /\ pubkey_to_oracle_ids' = EmptyDict
    /\ oracle_id_to_subscription' = EmptyDict
    /\ inflight_subscribes' = EmptyDict
    /\ pending_subscriptions' = <<>>
    /\ request_id_counter' = 0

\* unsubscribe from "if self.ws:" to its return.  A socket still set here
\* gets one account_unsubscribe call per subscription id and a second close
\* before self.ws is dropped; then everything is cleared.  What was recorded
\* about the socket is dropped with it.
StopTail ==
    /\ unsubFrames' = IF ws # "none" /\ SocketHasAccountUnsubscribe /\ sockOpen
                      THEN unsubFrames \cup DOMAIN subscription_map ELSE unsubFrames
    /\ lockedWaits' =
           IF ws # "none" /\ SocketHasAccountUnsubscribe /\ subscription_map # EmptyDict
           THEN lockedWaits \cup {"unsubscribe"} ELSE lockedWaits
    /\ ws' = "none"
    /\ ClearAll
    /\ stopPc' = "idle"
    /\ stopped' = IF stopPc = "idle" THEN "atonce" ELSE "waited"
    /\ subFrames' = NoFrames
    /\ ridAtConnect' = 0
    /\ wasConfirmed' = {}
    /\ addedOffline' = {}

\* unsubscribe up to its first real suspension: the flag is dropped, the
\* reader task is cancelled and, when a socket is set, its close is awaited
\* (for 0.5 s at most); with no socket and no task it runs to its return.
Unsubscribe ==
    /\ stopPc = "idle"
    /\ running' = FALSE
    /\ IF ws # "none"
       THEN /\ stopPc' = "close"
            /\ stopped' = "no"
            /\ sockOpen' = FALSE
            /\ srvPending' = {}
            /\ srvSubs' = EmptyDict
            /\ UNCHANGED <<ws, task, registry, correlator, subFrames, unsubFrames,
                           ridAtConnect, wasConfirmed, addedOffline, lockedWaits>>
       ELSE IF task
       THEN /\ stopPc' = "task"
            /\ stopped' = "no"
            /\ UNCHANGED <<ws, task, registry, correlator, server, subFrames,
                           unsubFrames, ridAtConnect, wasConfirmed, addedOffline,
                           lockedWaits>>
       ELSE /\ StopTail
            /\ UNCHANGED <<task, server>>
    /\ UNCHANGED <<readerPc, replayLeft, caller, noteTick, submitted, trackOffline,
                   lastDropped, fetchSeen, overlap>>

\* The wait for the socket's close is over: the close returned, raised, or
\* timed out and the transport was closed by force.
StopClosed ==
    /\ stopPc = "close"
    /\ IF task
       THEN /\ stopPc' = "task"
            /\ UNCHANGED <<ws, registry, correlator, ghost>>
       ELSE /\ StopTail
            /\ UNCHANGED <<noteTick, submitted, trackOffline, lastDropped, fetchSeen>>
    /\ UNCHANGED <<running, task, readerPc, replayLeft, caller, server, overlap>>

\* wait_for(self.task, 1.0) returns once the cancelled task has ended (on
\* its timeout it cancels the task again and waits for it to end).
StopTaskDone ==
    /\ stopPc = "task"
    /\ readerPc = "done"
    /\ task' = FALSE
    /\ readerPc' = "idle"
    /\ StopTail
    /\ UNCHANGED <<running, replayLeft, caller, server, noteTick, submitted,
                   trackOffline, lastDropped, fetchSeen, overlap>>

\* A plausible slip of the reader: the cancellation is caught where it is
\* raised and the loop goes on.
ReaderSwallowsCancel ==
    /\ task
    /\ ~running
    /\ readerPc \in {"connecting", "backoff", "read"}
    /\ UNCHANGED vars

\* The cancelled reader task: CancelledError is raised where the task
\* stands (connect, sleep, send or recv), the socket's context is left, the
\* handlers of lines 491-510 and 527-546 close the socket, drop self.ws and
\* clear the subscription-id and in-flight state, and the task ends.
ReaderCancelled ==
    /\ task
    /\ ~running
    /\ readerPc \in {"connecting", "backoff", "read"}
    /\ readerPc' = "done"
    /\ replayLeft' = {}
    /\ ws' = "none"
    /\ sockOpen' = FALSE
    /\ srvPending' = {}
    /\ srvSubs' = EmptyDict
    /\ subscription_map' = EmptyDict
    /\ pubkey_to_subscription' = EmptyDict
    /\ inflight_subscribes' = EmptyDict
    /\ UNCHANGED <<running, task, decode_map, data_map, pubkey_to_oracle_ids,
                   oracle_id_to_subscription, request_id_counter,
                   pending_subscriptions, caller, ghost, stopPc, overlap>>

\* The calls SpecStop makes beside unsubscribe name one address, under its
\* own string and under its oracle id.
StopInputs == {in \in AddInputs : in[1] = "A"}

NextStop ==
    \/ \E in \in StopInputs, d \in DataValues \cup {NoneData} :
          AddAccount(in[1], in[2], d)
    \/ \E result \in SnapshotResults : AddFetchOk(result)
    \/ AddFetchFail
    \/ \E in \in StopInputs : RemoveAccount(in[1], in[2])
    \/ Subscribe
    \/ ConnectOk
    \/ ConnectFail
    \/ BackoffDone
    \/ ReplayStep
    \/ \E r \in 1..MaxRid, s \in SubIds : RecvConfirm(r, s)
    \/ \E s \in SubIds, slot \in Slots, payload \in Payloads, bad \in SUBSET Keys :
          RecvNotify(s, slot, payload, bad)
    \/ RecvClosed
    \/ ServerClose
    \/ Unsubscribe
    \/ StopClosed
    \/ StopTaskDone
    \/ ReaderCancelled

SpecStop == Init /\ [][NextStop]_vars

\* The event loop runs every task that is ready, and each wait of
\* unsubscribe is bounded by its timeout.
SpecStopFair ==
    /\ SpecStop
    /\ WF_vars(StopClosed)
    /\ WF_vars(StopTaskDone)
    /\ WF_vars(ReaderCancelled)

\* The sleep of the backoff ends after a second, and recv on a closed socket
\* raises at once.
SpecReconnectFair ==
    /\ SpecStop
    /\ WF_vars(BackoffDone)
    /\ WF_vars(RecvClosed)

\* ------------------------- frames outside the protocol (SpecFrames)
\* What the model records beside lastDropped.
history == <<subFrames, unsubFrames, noteTick, ridAtConnect, wasConfirmed, submitted,
             stopped, addedOffline, trackOffline, lockedWaits>>

\* A confirmation frame reaches the read loop whose request id is not in
\* flight: the id of a request already resolved, or of none that was made.
RecvUnmatchedConfirm(request_id, subscription_id) ==
    /\ Reading
    /\ sockOpen
    /\ request_id \notin DOMAIN inflight_subscribes
    /\ HandleConfirmation(request_id, subscription_id)
    /\ lastDropped' = "confirmation"
    /\ UNCHANGED <<decode_map, data_map, pubkey_to_oracle_ids, request_id_counter,
                   reader, caller, server, history, fetchSeen, stopPc, overlap>>

\* A server that echoes no request id answers the oldest subscribe frame it
\* holds; the reader handles the confirmation with request_id = None.
RecvConfirmNoId(subscription_id) ==
    /\ Reading
    /\ sockOpen
    /\ subscription_id \in SubIds \ DOMAIN srvSubs
    /\ srvPending # {}
    /\ LET req == CHOOSE q \in srvPending : \A o \in srvPending : q[1] <= o[1]
       IN /\ srvPending' = srvPending \ {req}
          /\ srvSubs' = Put(srvSubs, subscription_id, req[2])
    /\ HandleConfirmation(NoRid, subscription_id)
    /\ UNCHANGED <<decode_map, data_map, pubkey_to_oracle_ids, request_id_counter,
                   reader, caller, sockOpen, ghost, stopPc, overlap>>

\* A notification frame that names no subscription reaches the read loop.
RecvNotifyNoId(slot, payload) ==
    /\ Reading
    /\ sockOpen
    /\ data_map' = HandleNotification(NoSid, slot, payload, {})
    /\ lastDropped' = "notification"
    /\ UNCHANGED <<subscription_map, pubkey_to_subscription, decode_map,
                   pubkey_to_oracle_ids, oracle_id_to_subscription, correlator,
                   reader, caller, server, history, fetchSeen, stopPc, overlap>>

\* The frames that are neither a subscribe confirmation nor a notification.
\* json is what json.loads makes of the text, method tells a frame with
\* "method" and "params", result is the kind of its result (of params.result
\* when it has a method), id its request id, sub the subscription its params
\* name:
\*   text that is no JSON, or JSON that is no object;
\*   a response without result (an error), or whose result is null, a
\*   string or an object (the answer to another call);
\*   a push whose params have no result, or one that is null, a string, a
\*   number, or an object whose "value" is null.
OtherFrames ==
    {[json |-> j, method |-> FALSE, result |-> "absent", id |-> NoRid, sub |-> NoSid] :
        j \in {"invalid", "array"}}
    \cup {[json |-> "object", method |-> FALSE, result |-> r, id |-> i, sub |-> NoSid] :
             r \in {"absent", "null", "string", "dict"}, i \in 0..MaxRid}
    \cup {[json |-> "object", method |-> TRUE, result |-> r, id |-> NoRid, sub |-> s] :
             r \in {"absent", "null", "string", "int", "dict_null_value"},
             s \in SubIds \cup {NoSid}}

\* A plausible slip of the dispatch: every response that echoes a request id
\* is taken for a confirmation, whatever its result.
DispatchByIdOnly(frame) ==
    IF frame.json # "object" \/ frame.result = "dict_null_value" THEN "discard"
    ELSE IF ~frame.method /\ (frame.result = "int" \/ frame.id # NoRid)
    THEN "confirmation"
    ELSE IF frame.result = "dict" THEN "notification"
    ELSE "discard"

\* What the read loop takes a frame for.  Text that json.loads rejects, JSON
\* on which FakeMsg or FakeResult raise (no object, a null "value"): the parse
\* fails and the frame is skipped.  A response with an int result: a
\* confirmation.  An object result, which FakeResult gives a value: a
\* notification.  Anything else passes both tests of the loop.
Dispatch(frame) ==
    IF frame.json # "object" \/ frame.result = "dict_null_value" THEN "discard"
    ELSE IF ~frame.method /\ frame.result = "int" THEN "confirmation"
    ELSE IF frame.result = "dict" THEN "notification"
    ELSE "discard"

\* A frame that is neither a confirmation nor a notification reaches the
\* read loop and is handled as what the loop takes it for.
RecvOther(frame) ==
    /\ Reading
    /\ sockOpen
    /\ lastDropped' = "other"
    /\ IF Dispatch(frame) = "confirmation"
       THEN HandleConfirmation(frame.id, frame.sub)
       ELSE UNCHANGED <<inflight_subscribes, subscription_map, pubkey_to_subscription,
                        oracle_id_to_subscription, pending_subscriptions>>
    /\ IF Dispatch(frame) = "notification"
       THEN \E slot \in Slots, payload \in Payloads :
               data_map' = HandleNotification(frame.sub, slot, payload, {})
       ELSE data_map' = data_map
    /\ UNCHANGED <<decode_map, pubkey_to_oracle_ids, request_id_counter, reader,
                   caller, server, history, fetchSeen, stopPc, overlap>>

\* The calls of SpecFrames name one address and bring the initial value.
NextFrames ==
    \/ \E in \in StopInputs, d \in DataValues : AddAccount(in[1], in[2], d)
    \/ \E in \in StopInputs : RemoveAccount(in[1], in[2])
    \/ Subscribe
    \/ ConnectOk
    \/ ConnectFail
    \/ BackoffDone
    \/ ReplayStep
    \/ \E r \in 1..MaxRid, s \in SubIds : RecvConfirm(r, s)
    \/ \E s \in SubIds, slot \in Slots, payload \in Payloads, bad \in SUBSET Keys :
          RecvNotify(s, slot, payload, bad)
    \/ RecvClosed
    \/ ServerClose
    \/ \E r \in 1..(MaxRid + 1), s \in SubIds : RecvUnmatchedConfirm(r, s)
    \/ \E s \in SubIds : RecvConfirmNoId(s)
    \/ \E s \in SubIds, slot \in Slots, payload \in Payloads :
          RecvStaleNotify(s, slot, payload)
    \/ \E slot \in Slots, payload \in Payloads : RecvNotifyNoId(slot, payload)
    \/ \E frame \in OtherFrames : RecvOther(frame)

SpecFrames == Init /\ [][NextFrames]_vars

\* ------------------------------ any oracle id with any address (SpecAnyKey)
\* add_account and remove_account take any oracle id with any pubkey: nothing
\* in them compares the two.  Beside the pairs of AddInputs, callers pass the
\* oracle id of one address together with another address.
AnyKeyInputs == {<<p, o>> : p \in Pubkeys, o \in OracleIds}

\* The calls of SpecAnyKey bring the initial value.
NextAnyKey ==
    \/ \E in \in AnyKeyInputs, d \in DataValues : AddAccount(in[1], in[2], d)
    \/ \E in \in AnyKeyInputs : RemoveAccount(in[1], in[2])
    \/ Subscribe
    \/ ConnectOk
    \/ ConnectFail
    \/ BackoffDone
    \/ ReplayStep
    \/ \E r \in 1..MaxRid, s \in SubIds : RecvConfirm(r, s)
    \/ \E s \in SubIds, slot \in Slots, payload \in Payloads, bad \in SUBSET Keys :
          RecvNotify(s, slot, payload, bad)
    \/ RecvClosed
    \/ ServerClose

SpecAnyKey == Init /\ [][NextAnyKey]_vars

\* ------------------------------------------------- fetch() (SpecFetch)
\* What a snapshot fetch hands back: a value, None, or an exception.
FailedData == [slot |-> -2, data |-> "raised"]
FetchOutcomes == SnapshotResults \cup {NoneData, FailedData}

\* fetch(pubkey, oracle_id) up to its await: a key without decoder makes it
\* return at once.
FetchOne(pubkey, oracle_id) ==
    LET key == InternalKey(pubkey, oracle_id)
    IN /\ fetching = NoFetch
       /\ fetching' = IF key \in decode_map
                      THEN [mode |-> "one", keys |-> {key}] ELSE NoFetch
       /\ UNCHANGED <<registry, correlator, reader, addPc, addArgs, addResult,
                      server, ghost, stopPc, overlap>>

\* fetch() up to its await: one snapshot task per key of decode_map that
\* parses to a pubkey; with no task, gather is done at once and fetch returns.
FetchAll ==
    LET keys == {k \in decode_map : KeyPubkey(k) # NoPubkey}
    IN /\ fetching = NoFetch
       /\ fetching' = IF keys # {} THEN [mode |-> "all", keys |-> keys] ELSE NoFetch
       /\ UNCHANGED <<registry, correlator, reader, addPc, addArgs, addResult,
                      server, ghost, stopPc, overlap>>

\* A plausible slip of fetch(): gather without return_exceptions, so that one
\* failed snapshot raises out of fetch() before anything is merged.
MergeResultsNoneOnFailure(dm, keys, results) ==
    IF \E k \in keys : results[k] = FailedData THEN dm
    ELSE [k \in (DOMAIN dm) \cup {q \in keys : results[q] # NoneData} |->
             IF k \in keys THEN UpdateData(dm, k, results[k])[k] ELSE dm[k]]

\* The last loop of fetch(): every result that is no exception goes through
\* _update_data for its key.
RECURSIVE MergeResults(_, _, _)
MergeResults(dm, keys, results) ==
    IF keys = {} THEN dm
    ELSE LET k == CHOOSE k \in keys : TRUE
             merged == IF results[k] = FailedData THEN dm
                       ELSE UpdateData(dm, k, results[k])
         IN MergeResults(merged, keys \ {k}, results)

\* The snapshot of fetch(pubkey, oracle_id) arrived and is merged.
FetchOneDone(result) ==
    /\ fetching.mode = "one"
    /\ \E key \in fetching.keys : data_map' = UpdateData(data_map, key, result)
    /\ fetching' = NoFetch
    /\ UNCHANGED <<subscription_map, pubkey_to_subscription, decode_map,
                   pubkey_to_oracle_ids, oracle_id_to_subscription, correlator, reader,
                   addPc, addArgs, addResult, server, ghost, stopPc, overlap>>

\* The snapshot fetch of fetch(pubkey, oracle_id) raised: so does fetch.
FetchOneFail ==
    /\ fetching.mode = "one"
    /\ fetching' = NoFetch
    /\ UNCHANGED <<registry, correlator, reader, addPc, addArgs, addResult,
                   server, ghost, stopPc, overlap>>

\* gather returned the results of fetch(): a value, None or an exception
\* for each key.
FetchAllDone(results) ==
    /\ fetching.mode = "all"
    /\ results \in [fetching.keys -> FetchOutcomes]
    /\ data_map' = MergeResults(data_map, fetching.keys, results)
    /\ fetching' = NoFetch
    /\ fetchSeen' = IF /\ \E k \in fetching.keys : results[k] = FailedData
                       /\ data_map' # data_map
                    THEN "partial" ELSE fetchSeen
    /\ UNCHANGED <<subscription_map, pubkey_to_subscription, decode_map,
                   pubkey_to_oracle_ids, oracle_id_to_subscription, correlator, reader,
                   addPc, addArgs, addResult, server, history, lastDropped, stopPc, overlap>>

\* The calls of SpecFetch name one address; add_account brings the initial
\* value.
NextFetch ==
    \/ \E in \in StopInputs, d \in DataValues : AddAccount(in[1], in[2], d)
    \/ \E in \in StopInputs : RemoveAccount(in[1], in[2])
    \/ Subscribe
    \/ ConnectOk
    \/ ConnectFail
    \/ BackoffDone
    \/ ReplayStep
    \/ \E r \in 1..MaxRid, s \in SubIds : RecvConfirm(r, s)
    \/ \E s \in SubIds, slot \in Slots, payload \in Payloads, bad \in SUBSET Keys :
          RecvNotify(s, slot, payload, bad)
    \/ RecvClosed
    \/ ServerClose
    \/ \E in \in StopInputs : FetchOne(in[1], in[2])
    \/ FetchAll
    \/ \E result \in SnapshotResults \cup {NoneData} : FetchOneDone(result)
    \/ FetchOneFail
    \/ \E results \in [fetching.keys -> FetchOutcomes] : FetchAllDone(results)

SpecFetch == Init /\ [][NextFetch]_vars

\* ------------------------------------------ the merge rule (SpecMerge)
\* _update_data is called with any key and any update, None included.
MergeUpdate(key, new_data) ==
    /\ Len(submitted) < MaxUpdates
    /\ data_map' = UpdateData(data_map, key, new_data)
    /\ submitted' = Append(submitted, <<key, new_data>>)
    /\ UNCHANGED <<subscription_map, pubkey_to_subscription, decode_map,
                   pubkey_to_oracle_ids, oracle_id_to_subscription, correlator,
                   reader, caller, server, subFrames, unsubFrames, noteTick, ridAtConnect,
                   wasConfirmed, stopped, addedOffline, stopPc, overlap,
                   trackOffline, lastDropped,
                   lockedWaits, fetchSeen>>

NextMerge ==
    \E key \in Keys, new_data \in MergeValues \cup {NoneData} : MergeUpdate(key, new_data)

SpecMerge == Init /\ [][NextMerge]_vars

\* ---------------------------------------------------------------- C1
\* The updates other than None submitted for a key, in submission order.
SubmittedFor(key) ==
    SelectSeq(submitted, LAMBDA u : u[1] = key /\ u[2] # NoneData)

MaxSlotOf(updates) ==
    CHOOSE m \in {updates[i][2].slot : i \in DOMAIN updates} :
        \A i \in DOMAIN updates : updates[i][2].slot <= m

LastWithSlot(updates, m) ==
    LET at == {i \in DOMAIN updates : updates[i][2].slot = m}
    IN updates[CHOOSE i \in at : \A j \in at : j <= i][2]

C1_CachedIsLastMaximal ==
    \A key \in Keys :
        LET updates == SubmittedFor(key)
        IN IF updates = <<>>
           THEN key \notin DOMAIN data_map
           ELSE /\ key \in DOMAIN data_map
                /\ data_map[key].slot = MaxSlotOf(updates)
                /\ data_map[key] = LastWithSlot(updates, MaxSlotOf(updates))

C1_LowerOrNoneIsNoOp ==
    Len(submitted') = Len(submitted) + 1 =>
        LET key == submitted'[Len(submitted')][1]
            new_data == submitted'[Len(submitted')][2]
        IN (\/ new_data = NoneData
            \/ (key \in DOMAIN data_map /\ new_data.slot < data_map[key].slot))
           => data_map' = data_map

\* C1: after any sequence of _update_data calls the cached value of every key
\* carries the maximal slot submitted for it and is the last value submitted
\* with that slot; an update with a lower slot than the cached one, or of
\* None, leaves the cache as it was.
C1_SlotMonotonicity ==
    [](C1_CachedIsLastMaximal) /\ [][C1_LowerOrNoneIsNoOp]_vars

\* Two values tie on the maximal slot, a lower one and a None follow in any
\* order: the second of the tied values is cached.
C1_Witness ==
    \E key \in Keys :
        /\ Len(submitted) = MaxUpdates
        /\ submitted[1] = <<key, DataAndSlot(MaxSlot, "X")>>
        /\ submitted[2] = <<key, DataAndSlot(MaxSlot, "Y")>>
        /\ submitted[3][1] = key
        /\ submitted[3][2] # NoneData
        /\ submitted[3][2].slot < MaxSlot
        /\ data_map[key] = DataAndSlot(MaxSlot, "Y")

\* ------------------------------------------------------- C2 .. C10
\* The logical keys registered for a pubkey: its own string and its oracle
\* ids, as far as they hold a decoder.
RegisteredKeys(pubkey) ==
    {k \in decode_map : k = PubkeyStr(pubkey) \/ k \in OracleIdsOf(pubkey)}

\* The cached value of key is the same before and after the step.
SameCached(key) ==
    /\ (key \in DOMAIN data_map') = (key \in DOMAIN data_map)
    /\ key \in DOMAIN data_map => data_map'[key] = data_map[key]

\* The cached value of key after the step is the merge of new_data.
MergedCached(key, new_data) ==
    /\ key \in DOMAIN data_map'
    /\ data_map'[key] = UpdateData(data_map, key, new_data)[key]

\* C2: on one socket, no address is sent more than one accountSubscribe
\* frame, however many add_account calls name it and however they interleave
\* with the connect-time replay and the confirmations.
C2_OneSubscribeFramePerAddress ==
    \A p \in Pubkeys : subFrames[p] <= 1

\* C3: subscription_map holds at most one subscription id per address, and
\* the oracle ids of an address carry the id of the address.
C3_OneSubscriptionPerAddress ==
    /\ \A s1, s2 \in DOMAIN subscription_map :
          subscription_map[s1] = subscription_map[s2] => s1 = s2
    /\ \A p \in DOMAIN pubkey_to_subscription : \A o \in OracleIdsOf(p) :
          /\ o \in DOMAIN oracle_id_to_subscription
          /\ oracle_id_to_subscription[o] = pubkey_to_subscription[p]

\* C4: a notification for a known subscription id whose bytes every decoder
\* accepts is merged for every logical key registered for the address, its
\* own string as well as its oracle ids.
C4_NotificationReachesEveryKey ==
    [][\A s \in SubIds, slot \in Slots, payload \in Payloads :
          (RecvNotify(s, slot, payload, {}) /\ s \in DOMAIN subscription_map)
          => \A k \in RegisteredKeys(subscription_map[s]) :
                MergedCached(k, DataAndSlot(slot, payload))]_vars

\* C5: when the decoder of a registered key raises on a notification, the
\* cached value of that key stays, and every sibling key of the address whose
\* decoder accepts the bytes is merged from the notification.
C5_DecodeFailureIsolated ==
    [][\A s \in SubIds, slot \in Slots, payload \in Payloads, bad \in SUBSET Keys :
          (/\ RecvNotify(s, slot, payload, bad)
           /\ s \in DOMAIN subscription_map
           /\ bad \cap RegisteredKeys(subscription_map[s]) # {})
          => \A k \in RegisteredKeys(subscription_map[s]) :
                IF k \in bad THEN SameCached(k)
                ELSE MergedCached(k, DataAndSlot(slot, payload))]_vars

\* C6: with address A registered under its own string K1 and under the
\* oracle id K2, and subscribed, remove_account(A, oracle_id=K2) keeps K1's
\* decoder and cached value and A's entries in subscription_map and
\* pubkey_to_subscription.
C6_PartialRemovalKeepsCanonical ==
    [][\A p \in Pubkeys, K2 \in OracleIds :
          (/\ RemoveAccount(p, K2)
           /\ PubkeyStr(p) \in decode_map
           /\ PubkeyStr(p) \in DOMAIN data_map
           /\ K2 \in RegisteredKeys(p)
           /\ p \in DOMAIN pubkey_to_subscription)
          => /\ PubkeyStr(p) \in decode_map'
             /\ SameCached(PubkeyStr(p))
             /\ pubkey_to_subscription' = pubkey_to_subscription
             /\ subscription_map' = subscription_map]_vars

\* remove_account(pubkey, oracle_id) removes the last logical key of pubkey.
RemovesLastKey(pubkey, oracle_id) ==
    /\ RegisteredKeys(pubkey) # {}
    /\ oracle_id # NoOracle => RegisteredKeys(pubkey) = {oracle_id}

\* C7: removing the last logical key of a subscribed address on an open
\* socket sends an unsubscribe frame for its subscription id and purges the
\* address from the subscription id maps, the decoders, the cached values
\* and the oracle id sets.
C7_LastRemovalUnsubscribesAndPurges ==
    [][\A in \in AddInputs :
          (/\ RemoveAccount(in[1], in[2])
           /\ RemovesLastKey(in[1], in[2])
           /\ ws # "none" /\ sockOpen
           /\ in[1] \in DOMAIN pubkey_to_subscription
           /\ pubkey_to_subscription[in[1]] \in DOMAIN subscription_map)
          => /\ pubkey_to_subscription[in[1]] \in unsubFrames'
             /\ in[1] \notin DOMAIN pubkey_to_subscription'
             /\ pubkey_to_subscription[in[1]] \notin DOMAIN subscription_map'
             /\ \A k \in RegisteredKeys(in[1]) :
                   k \notin decode_map' /\ k \notin DOMAIN data_map'
             /\ in[1] \in DOMAIN pubkey_to_oracle_ids'
                   => pubkey_to_oracle_ids'[in[1]] = {}]_vars

\* C8: an address whose subscription was confirmed when the socket was lost,
\* and whose feed was neither removed nor added again, has been sent exactly
\* one accountSubscribe frame on the next socket once the replay is through.
C8_OneSubscribeFrameAfterReconnect ==
    \A p \in wasConfirmed :
        (/\ Reading /\ sockOpen
         /\ \E k \in DOMAIN data_map : KeyPubkey(k) = p)
        => subFrames[p] = 1

\* C9: a confirmation bearing a request id issued before the current socket
\* was made changes none of subscription_map, pubkey_to_subscription,
\* inflight_subscribes and the cached values.
C9_StaleConfirmationIgnored ==
    [][\A r \in 1..MaxRid, s \in SubIds :
          RecvStaleConfirm(r, s)
          => UNCHANGED <<subscription_map, pubkey_to_subscription,
                         inflight_subscribes, data_map>>]_vars

\* C10: whenever the reader is about to open a socket, subscription_map,
\* pubkey_to_subscription and inflight_subscribes are empty.
C10_ClearedBeforeConnecting ==
    readerPc = "connecting" =>
        /\ subscription_map = EmptyDict
        /\ pubkey_to_subscription = EmptyDict
        /\ inflight_subscribes = EmptyDict

\* ---------------------------------------------------------------- C11
\* C11: a notification bearing a subscription id that was confirmed on an
\* earlier socket only (none of the current socket's confirmations carried
\* it) changes no cached value.
C11_StaleNotificationDropped ==
    [][\A s \in SubIds, slot \in Slots, payload \in Payloads :
          RecvStaleNotify(s, slot, payload) => data_map' = data_map]_vars

\* ---------------------------------------------------------------- C12
\* C12: from the return of unsubscribe until the next call of subscribe,
\* add_account, remove_account or unsubscribe, the socket handle and the
\* reader task are none, every map is empty and request_id_counter is 0.
C12_StoppedIsFullyStopped ==
    stopped # "no" => FullyStopped

\* ---------------------------------------------------------------- C13
\* unsubscribe is called on a manager that has no reader task and no socket:
\* one that was never started, or one that is stopped.
StopsStopped == Unsubscribe /\ ~task /\ ws = "none"

\* C13: unsubscribe called on a manager that was never started or is already
\* stopped returns at once and leaves it fully stopped; called right after
\* an unsubscribe that returned, it changes nothing of the manager.
C13_UnsubscribeIdempotent ==
    [][StopsStopped =>
          /\ stopPc' = "idle"
          /\ stopped' = "atonce"
          /\ FullyStopped'
          /\ (stopped # "no" /\ FullyStopped) =>
                UNCHANGED <<registry, correlator, reader, caller, server>>]_vars

\* unsubscribe found no task and no socket and returned at once, after an
\* add_account that had recorded a decoder and still awaits its snapshot:
\* the decoder is cleared.
C13_Witness ==
    /\ stopped = "atonce"
    /\ FullyStopped
    /\ stopPc = "idle"
    /\ addPc = "fetch"

\* ---------------------------------------------------------------- C14
\* C14: every call of unsubscribe that has to wait (for the socket's close,
\* for the reader task) returns in the end, whatever add_account and
\* remove_account calls and socket failures take place meanwhile.
C14_UnsubscribeCompletes ==
    (stopPc # "idle") ~> (stopPc = "idle" /\ stopped = "waited")

\* An unsubscribe that had to wait has returned, on a manager whose reader
\* had connected and handled a notification.
C14_Witness ==
    /\ stopped = "waited"
    /\ FullyStopped
    /\ noteTick = TRUE

\* ---------------------------------------------------------------- C15
\* C15: for an address with no oracle id whose own key holds a decoder, a
\* notification for its subscription id at a slot not below the cached one
\* (or with nothing cached) makes get_data return that slot and the decoded
\* payload; a notification at a lower slot leaves what get_data returns.
C15_NotificationThenLowerSlot ==
    [][\A s \in SubIds, slot \in Slots, payload \in Payloads :
          (/\ RecvNotify(s, slot, payload, {})
           /\ s \in DOMAIN subscription_map
           /\ OracleIdsOf(subscription_map[s]) = {}
           /\ PubkeyStr(subscription_map[s]) \in decode_map)
          => LET pubkey == subscription_map[s]
                 cached == GetDataOfPubkey(pubkey)
             IN /\ GetDataOfPubkey(pubkey)' = GetData(PubkeyStr(pubkey))'
                /\ IF cached = NoneData \/ cached.slot <= slot
                   THEN GetDataOfPubkey(pubkey)' = DataAndSlot(slot, payload)
                   ELSE GetDataOfPubkey(pubkey)' = cached]_vars

\* Address A, added under its own key alone, is subscribed on the open
\* socket, a notification was handled and get_data returns the highest slot.
C15_Witness ==
    /\ Reading /\ sockOpen
    /\ noteTick = TRUE
    /\ OracleIdsOf("A") = {}
    /\ "A" \in DOMAIN pubkey_to_subscription
    /\ pubkey_to_subscription["A"] \in DOMAIN srvSubs
    /\ "B" \notin DOMAIN pubkey_to_subscription
    /\ GetDataOfPubkey("A") = DataAndSlot(MaxSlot, "X")

\* ---------------------------------------------------------------- C16
\* C16: once the reader has gone through the replay on an open socket, every
\* address for which add_account added a feed while the reader held no
\* socket, and which has a cached key, has been sent an accountSubscribe
\* frame on this socket.
C16_OfflineFeedSubscribedOnConnect ==
    \A p \in addedOffline :
        (/\ Reading /\ sockOpen
         /\ \E k \in DOMAIN data_map : KeyPubkey(k) = p)
        => subFrames[p] >= 1

\* ---------------------------------------------------------------- C17
\* C17: when the snapshot fetch of add_account fails for a key that held no
\* decoder before the call, the key holds no decoder and no cached value
\* afterwards, its oracle id is not in the set of its pubkey, and no
\* subscribe request was made.
C17_FetchFailureRegistersNothing ==
    [][(AddFetchFail /\ ~addArgs.had_decoder)
          => LET key == InternalKey(addArgs.pubkey, addArgs.oracle_id)
             IN /\ key \notin decode_map'
                /\ key \notin DOMAIN data_map'
                /\ addArgs.pubkey \in DOMAIN pubkey_to_oracle_ids'
                      => addArgs.oracle_id \notin pubkey_to_oracle_ids'[addArgs.pubkey]
                /\ request_id_counter' = request_id_counter
                /\ subFrames' = subFrames]_vars

\* ---------------------------------------------------------------- C18
\* The pubkey holds a subscription id that the server confirmed on the open
\* socket.
ConfirmedOnSocket(pubkey) ==
    /\ sockOpen
    /\ pubkey \in DOMAIN pubkey_to_subscription
    /\ pubkey_to_subscription[pubkey] \in DOMAIN srvSubs
    /\ srvSubs[pubkey_to_subscription[pubkey]] = pubkey

\* C18: no add_account call for an address with a confirmed subscription can
\* end without the decoder of its key being recorded, or with a subscribe
\* request made, whether the key is an oracle id or the address's own string.
C18_AddToSubscribedRegistersKey ==
    \A in \in AddInputs, d \in DataValues \cup {NoneData} :
        ConfirmedOnSocket(in[1]) =>
            ~ENABLED (/\ AddAccount(in[1], in[2], d)
                      /\ \/ InternalKey(in[1], in[2]) \notin decode_map'
                         \/ request_id_counter' # request_id_counter)

\* ---------------------------------------------------------------- C19
\* The in-flight request ids were all issued: none is above the counter.
C19_InflightIssued ==
    \A r \in DOMAIN inflight_subscribes : r >= 1 /\ r <= request_id_counter

\* A step changes request_id_counter by adding one, unless it is the end of
\* unsubscribe, which resets it; the id put on a frame or recorded in
\* flight by the step is the new value of the counter, above every id used
\* since the last reset.
C19_CounterStep ==
    /\ request_id_counter' # request_id_counter
          => \/ request_id_counter' = request_id_counter + 1
             \/ /\ Unsubscribe \/ StopClosed \/ StopTaskDone
                /\ stopped' # "no"
                /\ request_id_counter' = 0
    /\ \A f \in srvPending' \ srvPending :
          f[1] = request_id_counter' /\ f[1] = request_id_counter + 1
    /\ \A r \in (DOMAIN inflight_subscribes') \ DOMAIN inflight_subscribes :
          r = request_id_counter' /\ r = request_id_counter + 1

\* C19: the request ids put on subscribe frames are strictly increasing and
\* never reused until unsubscribe resets the counter; no disconnect or
\* reconnect lowers or resets it, and every in-flight id is an issued one.
C19_RequestIdsIncrease ==
    [](C19_InflightIssued) /\ [][C19_CounterStep]_vars

\* Request 1 was issued before the current socket was made, request 2 was
\* sent on it.
C19_Witness ==
    /\ ridAtConnect = 1
    /\ request_id_counter = MaxRid
    /\ \E f \in srvPending : f[1] = MaxRid

\* ---------------------------------------------------------------- C20
\* C20: a confirmation echoing an in-flight request id records its
\* subscription id against the address of that request, which is the
\* address the frame with that id named, and removes that in-flight entry
\* and no other.
C20_ConfirmationMatchedById ==
    [][\A r \in 1..MaxRid, s \in SubIds :
          (RecvConfirm(r, s) /\ r \in DOMAIN inflight_subscribes)
          => LET pubkey == inflight_subscribes[r][1]
             IN /\ \A req \in srvPending : req[1] = r => req[2] = pubkey
                /\ s \in DOMAIN subscription_map'
                /\ subscription_map'[s] = pubkey
                /\ pubkey \in DOMAIN pubkey_to_subscription'
                /\ pubkey_to_subscription'[pubkey] = s
                /\ inflight_subscribes' = Del(inflight_subscribes, r)]_vars

\* Two requests for different addresses were in flight on the socket and the
\* second was confirmed first.
C20_Witness ==
    /\ request_id_counter = MaxRid
    /\ DOMAIN inflight_subscribes = {1}
    /\ <<1, inflight_subscribes[1][1]>> \in srvPending
    /\ \E s \in DOMAIN srvSubs :
          /\ srvSubs[s] # inflight_subscribes[1][1]
          /\ s \in DOMAIN subscription_map
          /\ subscription_map[s] = srvSubs[s]

\* ---------------------------------------------------------------- C21
\* C21: a confirmation whose request id is not in flight (an id never issued,
\* or the duplicate of a confirmation already resolved) changes no map, no
\* cached value and nothing of the correlator, and leaves the reader in its
\* read loop on the same socket.
C21_UnmatchedConfirmationDropped ==
    [][\A r \in 1..(MaxRid + 1), s \in SubIds :
          RecvUnmatchedConfirm(r, s)
          => /\ UNCHANGED <<registry, correlator, reader, sockOpen>>
             /\ Reading']_vars

\* The duplicate of request 1's confirmation was dropped while request 2 is
\* in flight on the same socket.
C21_Witness ==
    /\ lastDropped = "confirmation"
    /\ Reading /\ sockOpen
    /\ DOMAIN inflight_subscribes = {MaxRid}
    /\ DOMAIN pubkey_to_subscription = {"A"}
    /\ pubkey_to_subscription["A"] \in DOMAIN srvSubs

\* ---------------------------------------------------------------- C22
\* The request ids still in flight that were issued on the current socket.
UnconfirmedSinceConnect ==
    {r \in DOMAIN inflight_subscribes : r > ridAtConnect}

\* C22: a confirmation that carries no request id, handled while subscribe
\* requests sent on the current socket are unconfirmed, resolves the oldest
\* of them: its subscription id is recorded for that request's address and
\* the request is no longer in flight.
C22_NoIdConfirmationMatchesOldest ==
    [][\A s \in SubIds :
          (RecvConfirmNoId(s) /\ UnconfirmedSinceConnect # {})
          => LET oldest == CHOOSE r \in UnconfirmedSinceConnect :
                              \A q \in UnconfirmedSinceConnect : r <= q
                 pubkey == inflight_subscribes[oldest][1]
             IN /\ s \in DOMAIN subscription_map'
                /\ subscription_map'[s] = pubkey
                /\ pubkey \in DOMAIN pubkey_to_subscription'
                /\ pubkey_to_subscription'[pubkey] = s
                /\ oldest \notin DOMAIN inflight_subscribes']_vars

\* ---------------------------------------------------------------- C23
\* A subscribe request is made whose send raises: the socket is closed.
\* (Only the send path moves request_id_counter up.)
SendFails ==
    /\ request_id_counter' = request_id_counter + 1
    /\ ~sockOpen

\* C23: when the send of a subscribe frame raises, in add_account or in the
\* connect-time replay, the request's id is not in flight afterwards and
\* the other in-flight entries are as before; the reader task stays where
\* it is, and the replay keeps every address it has not tried yet.
C23_SendFailureRetracts ==
    [][SendFails
          => /\ request_id_counter' \notin DOMAIN inflight_subscribes'
             /\ inflight_subscribes' = inflight_subscribes
             /\ UNCHANGED <<ws, running, task, readerPc>>
             /\ replayLeft' \subseteq replayLeft
             /\ Cardinality(replayLeft \ replayLeft') <= 1]_vars

\* Request 1, for A, was sent on the first socket and is in flight; the
\* socket closed and the send of request 2, for B, raised: request 1 is
\* still in flight and the read loop stands in recv.
C23_Witness ==
    /\ ridAtConnect = 0
    /\ request_id_counter = 2
    /\ DOMAIN inflight_subscribes = {1}
    /\ inflight_subscribes[1][1] = "A"
    /\ subFrames = [NoFrames EXCEPT !["A"] = 1]
    /\ PubkeyStr("B") \in DOMAIN data_map
    /\ "B" \notin DOMAIN pubkey_to_subscription
    /\ ws = "sock" /\ ~sockOpen
    /\ Reading

\* ---------------------------------------------------------------- C24
\* The step is one of add_account: its first part, or its resumption after
\* the snapshot fetch.
AddAccountStep ==
    \/ \E in \in AddInputs, d \in DataValues \cup {NoneData} : AddAccount(in[1], in[2], d)
    \/ \E result \in SnapshotResults : AddFetchOk(result)

\* C24: an add_account call whose subscribe frame could not be sent ends by
\* raising, unlike a call that succeeds, which returns.
C24_SendFailureSurfaced ==
    [][(AddAccountStep /\ SendFails) => addResult' = "raised"]_vars

\* ---------------------------------------------------------------- C25
\* The socket is lost, the reader finds it lost, or a connection attempt
\* fails.
Disconnects == ServerClose \/ RecvClosed \/ ConnectFail

\* C25: no disconnect changes the decoders, the cached values or the oracle
\* id sets.
C25_DisconnectKeepsFeeds ==
    [][Disconnects => UNCHANGED <<decode_map, data_map, pubkey_to_oracle_ids>>]_vars

\* The reader has left a lost socket and is about to connect again; A's
\* oracle id still has its decoder and its cached value.
C25_Witness ==
    /\ readerPc = "connecting"
    /\ ws = "sock" /\ ~sockOpen
    /\ "A" \in wasConfirmed
    /\ OracleIdsOf("A") # {}
    /\ \A o \in OracleIdsOf("A") : o \in decode_map /\ o \in DOMAIN data_map

\* ---------------------------------------------------------------- C26
\* C26: the reader starts a connection attempt only when the task starts or
\* when the backoff sleep that follows a disconnect is over, and never once
\* unsubscribe has dropped the running flag.
C26_BackoffBeforeReconnect ==
    [][(readerPc' = "connecting" /\ readerPc # "connecting")
          => /\ readerPc \in {"idle", "backoff"}
             /\ running']_vars

\* ---------------------------------------------------------------- C27
\* The reader task, started and not told to stop, is in its loop.
C27_ReaderAlive ==
    (task /\ running) => readerPc \in {"connecting", "backoff", "read"}

\* The reader has met a transport failure: a connection attempt failed, or
\* recv finds the socket closed.
C27_FailureSeen ==
    /\ running
    /\ \/ readerPc = "backoff"
       \/ Reading /\ ~sockOpen

\* C27: as long as unsubscribe is not called the reader task does not end,
\* and after a failed connection attempt, a failed read or a close of the
\* socket it comes to a new connection attempt.
C27_ReconnectsAfterFailure ==
    /\ [](C27_ReaderAlive)
    /\ C27_FailureSeen ~> (readerPc = "connecting" \/ ~running)

\* After an earlier connection on which requests were made, a connection
\* attempt failed and the backoff is over: the reader connects again.
C27_Witness ==
    /\ readerPc = "connecting"
    /\ running
    /\ ws = "none"
    /\ request_id_counter > 0

\* ---------------------------------------------------------------- C28
\* A notification naming subscription s, or none when s is NoSid, is handled:
\* one of the server's subscriptions, one it does not hold, or a frame
\* without the field.  (The decoders play no part when s is unknown.)
NotificationFor(s, slot, payload) ==
    \/ s # NoSid /\ RecvNotify(s, slot, payload, {})
    \/ s # NoSid /\ RecvStaleNotify(s, slot, payload)
    \/ s = NoSid /\ RecvNotifyNoId(slot, payload)

\* C28: a notification whose subscription id is missing, or is no key of
\* subscription_map, changes no cached value, no map and nothing of the
\* correlator, and leaves the reader in its read loop on the same socket.
C28_UnknownNotificationRejected ==
    [][\A s \in SubIds \cup {NoSid}, slot \in Slots, payload \in Payloads :
          (NotificationFor(s, slot, payload) /\ s \notin DOMAIN subscription_map)
          => /\ UNCHANGED <<registry, correlator, reader, sockOpen>>
             /\ Reading']_vars

\* A notification without subscription id was dropped while A is subscribed
\* on the socket and has a cached value.
C28_Witness ==
    /\ lastDropped = "notification"
    /\ Reading /\ sockOpen
    /\ "A" \in DOMAIN pubkey_to_subscription
    /\ pubkey_to_subscription["A"] \in DOMAIN srvSubs
    /\ GetData(PubkeyStr("A")) # NoneData

ResolvedAddress(key) == KeyPubkey(key)

\* C31: no oracle id is in the oracle id sets of two addresses, and every
\* oracle id in the set of an address (the address it was added with) is
\* resolved to that address by the replay and by the refresh of all feeds.
C31_KeyResolvesToOneAddress ==
    /\ \A p1, p2 \in DOMAIN pubkey_to_oracle_ids :
          p1 # p2 => pubkey_to_oracle_ids[p1] \cap pubkey_to_oracle_ids[p2] = {}
    /\ \A p \in DOMAIN pubkey_to_oracle_ids :
          \A o \in pubkey_to_oracle_ids[p] : ResolvedAddress(o) = p

\* ---------------------------------------------------------------- C32
\* is_subscribed()
IsSubscribed == ws # "none" /\ task

\* C32: is_subscribed() returns true only while the reader task stands in
\* its read loop on a socket whose handshake succeeded: not while it is
\* about to connect again after the connection was lost, not during the
\* backoff, and not once the task has ended.
C32_SubscribedOnlyWhileConnected ==
    IsSubscribed => readerPc = "read"

\* ---------------------------------------------------------------- C33
\* C33: remove_account(address, oracle_id=K) for a registered K, while another
\* logical key of the address is registered, removes the decoder and the
\* cached value of K and nothing else: the decoders and cached values of the
\* other keys and the two subscription id maps stay, and no unsubscribe frame
\* is sent.
C33_PartialRemovalTouchesOnlyKey ==
    [][\A p \in Pubkeys, K \in OracleIds :
          (/\ RemoveAccount(p, K)
           /\ K \in RegisteredKeys(p)
           /\ RegisteredKeys(p) \ {K} # {})
          => /\ decode_map' = decode_map \ {K}
             /\ data_map' = Del(data_map, K)
             /\ UNCHANGED <<subscription_map, pubkey_to_subscription, unsubFrames>>]_vars

\* ---------------------------------------------------------------- C34
\* C34: after remove_account(address) without oracle id, whether the address
\* holds a subscription id, has a subscribe request in flight or the reader
\* holds no socket, no key of the address has a decoder or a cached value,
\* the address has no oracle id set, and no key is left from which the
\* replay of a later connection would subscribe the address.
C34_FullRemovalPurges ==
    [][\A p \in Pubkeys :
          RemoveAccount(p, NoOracle)
          => /\ \A k \in KeysOf(p) : k \notin decode_map' /\ k \notin DOMAIN data_map'
             /\ p \notin DOMAIN pubkey_to_oracle_ids'
             /\ \A k \in DOMAIN data_map' : KeyPubkey(k) # p]_vars

\* ---------------------------------------------------------------- C35
\* What the merge rule makes of one snapshot outcome for key: a value whose
\* slot is not below the cached one (or with nothing cached) is cached, and
\* anything else (a lower slot, None, an exception) leaves the key as it was.
RefreshedCached(key, outcome) ==
    IF /\ outcome \notin {NoneData, FailedData}
       /\ (key \in DOMAIN data_map => outcome.slot >= data_map[key].slot)
    THEN key \in DOMAIN data_map' /\ data_map'[key] = outcome
    ELSE SameCached(key)

\* C35: fetch() writes snapshots only through the merge rule.  A fetch for a
\* key without decoder returns at once and changes nothing; the snapshot of
\* a fetch for one key is merged for that key and no other key changes; in
\* a fetch of all feeds every key is merged from its own snapshot, a key
\* whose snapshot failed or was not fetched keeps its cached value, and no
\* decoder or subscription changes.
C35_FetchMergesSnapshots ==
    [][/\ \A in \in StopInputs :
             (FetchOne(in[1], in[2]) /\ InternalKey(in[1], in[2]) \notin decode_map)
             => UNCHANGED vars
       /\ \A result \in SnapshotResults \cup {NoneData} :
             FetchOneDone(result)
             => \A k \in Keys :
                   IF k \in fetching.keys THEN RefreshedCached(k, result)
                   ELSE SameCached(k)
       /\ \A results \in [fetching.keys -> FetchOutcomes] :
             FetchAllDone(results)
             => /\ \A k \in Keys :
                      IF k \in fetching.keys THEN RefreshedCached(k, results[k])
                      ELSE SameCached(k)
                /\ UNCHANGED <<decode_map, subscription_map, pubkey_to_subscription>>]_vars

\* A fetch() of all feeds has returned with one snapshot failed and another
\* merged, and A's own string and oracle id are both cached, at different
\* slots.
C35_Witness ==
    /\ fetchSeen = "partial"
    /\ fetching = NoFetch
    /\ PubkeyStr("A") \in DOMAIN data_map
    /\ \E o \in OracleIdsOf("A") :
          /\ o \in DOMAIN data_map
          /\ data_map[o].slot # data_map[PubkeyStr("A")].slot

\* ---------------------------------------------------------------- C36
\* C36: for every key that holds a decoder and a cached value before and
\* after a step, the slot of the cached value after the step is not below
\* the one before, whichever operation the step belongs to.
C36_CachedSlotNeverDecreases ==
    [][\A k \in Keys :
          (/\ k \in decode_map /\ k \in decode_map'
           /\ k \in DOMAIN data_map /\ k \in DOMAIN data_map')
          => data_map'[k].slot >= data_map[k].slot]_vars

\* ---------------------------------------------------------------- C37
\* C37: subscription_map and pubkey_to_subscription are inverse of each
\* other: every subscription id of the one leads to an address that the
\* other leads back to that id, and the other way round.
C37_SubscriptionMapsInverse ==
    /\ \A s \in DOMAIN subscription_map :
          /\ subscription_map[s] \in DOMAIN pubkey_to_subscription
          /\ pubkey_to_subscription[subscription_map[s]] = s
    /\ \A p \in DOMAIN pubkey_to_subscription :
          /\ pubkey_to_subscription[p] \in DOMAIN subscription_map
          /\ subscription_map[pubkey_to_subscription[p]] = p

\* ---------------------------------------------------------------- C38
\* C38: every address with an entry in pubkey_to_subscription has a
\* registered logical key (its own string or one of its oracle ids, holding
\* a decoder).
C38_SubscribedAddressHasKey ==
    \A p \in DOMAIN pubkey_to_subscription : RegisteredKeys(p) # {}

\* ---------------------------------------------------------------- C39
\* C39: remove_account(address, oracle_id=K) for a K that is no registered
\* logical key of the address leaves the two subscription id maps as they
\* were, and every registered key of the address keeps its decoder and its
\* cached value.
C39_UnknownKeyRemovalIsNoOp ==
    [][\A p \in Pubkeys, K \in OracleIds :
          (RemoveAccount(p, K) /\ K \notin RegisteredKeys(p))
          => /\ UNCHANGED <<subscription_map, pubkey_to_subscription>>
             /\ \A k \in RegisteredKeys(p) : k \in decode_map' /\ SameCached(k)]_vars


\* ------------------------------------------ overlapping unsubscribe calls
\* unsubscribe takes no lock before its last block, so a second call can
\* begin while a first one is suspended.  SpecTasks follows the overlaps in
\* which the second call begins while the first awaits the reader task and
\* the task has not ended; both then wait on the same task, and the loop
\* wakes the first call first.  A reader task that self.task no longer
\* refers to is counted in orphans and not followed further.
MaxOrphans == 1

\* The reader tasks that have been created and have not ended.
ReaderTasks ==
    (IF task /\ readerPc \in {"connecting", "backoff", "read"} THEN 1 ELSE 0) + orphans

\* The second call from "if self.ws:" to its return.  self.ws is None
\* whenever the second call gets here (the cancelled reader dropped it), so
\* the block of lines 644-660 is skipped and everything is cleared.
Stop2Tail ==
    /\ ws' = "none"
    /\ ClearAll
    /\ stop2Pc' = "idle"
    /\ stopped' = "waited"
    /\ subFrames' = NoFrames
    /\ ridAtConnect' = 0
    /\ wasConfirmed' = {}
    /\ addedOffline' = {}
    /\ UNCHANGED <<unsubFrames, lockedWaits>>

\* A second unsubscribe() up to its first suspension: the flag is dropped,
\* the task is cancelled once more and, when the socket is still set, its
\* close is awaited; with no socket it awaits the reader task right away.
Unsubscribe2 ==
    /\ stopPc = "task"
    /\ stop2Pc = "idle"
    /\ readerPc # "done"
    /\ running' = FALSE
    /\ IF ws # "none"
       THEN /\ stop2Pc' = "close"
            /\ sockOpen' = FALSE
            /\ srvPending' = {}
            /\ srvSubs' = EmptyDict
       ELSE /\ stop2Pc' = "task"
            /\ UNCHANGED server
    /\ UNCHANGED <<ws, task, readerPc, replayLeft, registry, correlator, caller,
                   ghost, stopPc, orphans>>

\* The second call's wait for the socket's close is over.  "if self.task:"
\* is read now: the task the first call awaits, a task started after the
\* first call returned, or none.
Stop2Closed ==
    /\ stop2Pc = "close"
    /\ stopPc = "task" => readerPc # "done"
    /\ IF stopPc = "task"
       THEN /\ stop2Pc' = "task"
            /\ UNCHANGED <<ws, registry, correlator, ghost>>
       ELSE IF task
       THEN /\ stop2Pc' = "task_new"
            /\ UNCHANGED <<ws, registry, correlator, ghost>>
       ELSE /\ ws = "none"
            /\ Stop2Tail
            /\ UNCHANGED <<noteTick, submitted, trackOffline, lastDropped, fetchSeen>>
    /\ UNCHANGED <<running, task, readerPc, replayLeft, caller, server, stopPc,
                   orphans>>

\* The second call's wait_for(self.task, 1.0) returns after the first call's:
\* the task both awaited has ended, the first call has run to its return
\* and its caller may have called subscribe().  Line 642 sets self.task to
\* None whatever it refers to by now; a task started in between, which has
\* not connected yet, goes on running without a reference.
Stop2TaskDone ==
    /\ stop2Pc = "task"
    /\ stopPc = "idle"
    /\ ws = "none"
    /\ task => readerPc = "connecting"
    /\ IF task
       THEN /\ orphans < MaxOrphans
            /\ orphans' = orphans + 1
            /\ task' = FALSE
            /\ readerPc' = "idle"
       ELSE UNCHANGED <<task, readerPc, orphans>>
    /\ Stop2Tail
    /\ UNCHANGED <<running, replayLeft, caller, server, noteTick, submitted,
                   trackOffline, lastDropped, fetchSeen, stopPc>>

\* The second call awaits a task that nothing cancelled: wait_for times out
\* after a second, cancels the task and waits for it to end (its handlers
\* drop the flag, close the socket and drop self.ws); then self.task is
\* dropped and everything is cleared.
Stop2Timeout ==
    /\ stop2Pc = "task_new"
    /\ task
    /\ task' = FALSE
    /\ readerPc' = "idle"
    /\ running' = FALSE
    /\ replayLeft' = {}
    /\ sockOpen' = FALSE
    /\ srvPending' = {}
    /\ srvSubs' = EmptyDict
    /\ Stop2Tail
    /\ UNCHANGED <<caller, noteTick, submitted, trackOffline, lastDropped,
                   fetchSeen, stopPc, orphans>>

NextTasks ==
    \/ \E in \in StopInputs, d \in DataValues : AddAccount(in[1], in[2], d)
    \/ Subscribe
    \/ ConnectOk
    \/ ConnectFail
    \/ BackoffDone
    \/ ReplayStep
    \/ \E r \in 1..MaxRid, s \in SubIds : RecvConfirm(r, s)
    \/ RecvClosed
    \/ ServerClose
    \/ (stop2Pc = "idle" /\ Unsubscribe)
    \/ StopClosed
    \/ StopTaskDone
    \/ ReaderCancelled
    \/ Unsubscribe2
    \/ Stop2Closed
    \/ Stop2TaskDone
    \/ Stop2Timeout

SpecTasks == Init /\ [][NextTasks]_vars

\* ------------------------------------------------------------------ C40
\* C40: at most one reader task exists at any time, under any interleaving
\* of subscribe() and unsubscribe() calls: a subscribe() that finds a task
\* set starts none, so the tasks created and not ended never number two.
C40_AtMostOneReaderTask == ReaderTasks <= 1
====
